---------------------------- MODULE Spec2Model ----------------------------
(***************************************************************************)
(* Border Gates Traffic API (src/api.py): the fetch -> parse -> filter ->  *)
(* cache pipeline of get_border_gate_data, its CacheManager and the pure   *)
(* helpers it calls.                                                       *)
(*                                                                         *)
(* Strings the code computes with (dates, gate names, cell texts, cache    *)
(* keys) are sequences of code points, so that sorting, joining, lowering  *)
(* and trimming are computed as Python computes them.  Fixed messages are  *)
(* TLA+ strings.  An Optional value is a set with at most one element:     *)
(* None is {} and a value x is {x}.                                        *)
(***************************************************************************)
EXTENDS Integers, Sequences, FiniteSets, TLC

VARIABLES
    now,      \* time.time(), in seconds
    cache,    \* the module-level dict `cache`: key -> (data, timestamp)
    req,      \* one record per request: its position, inputs, locals, response
    nset,     \* history: number of set_cached_data calls so far
    probe     \* the last call of a pure function: its inputs and its output

vars == <<now, cache, req, nset, probe>>

---------------------------------------------------------------------------
(* Bounds of the model *)

NumReq == 2
MaxTicks == 3
MaxRows == 2
MaxNames == 2
MaxTableRows == 3

(* Configuration, src/api.py:74 *)
CACHE_TIMEOUT_SECONDS == 3600

\* The clock advances in steps of half the TTL: an entry can be younger than,
\* exactly as old as, and older than the TTL.
TimeStep == CACHE_TIMEOUT_SECONDS \div 2

Requests == 1..NumReq

---------------------------------------------------------------------------
(* Optional values *)

None == {}
Some(x) == {x}
Get(o) == CHOOSE x \in o : TRUE

---------------------------------------------------------------------------
(* Strings as sequences of code points *)

s_a == <<97>>
s_A == <<65>>
s_b == <<98>>
s_B == <<66>>
s_x == <<120>>
s_C_cedilla == <<199>>
s_c_cedilla == <<231>>
s_all == <<97, 108, 108>>
s_a_b == <<97, 95, 98>>
s_underscore == <<95>>
s_empty == <<>>
s_blank == <<32>>
s_nbsp == <<160>>
s_a_padded == <<32, 97, 32>>
s_border_data == <<98, 111, 114, 100, 101, 114, 95, 100, 97, 116, 97, 95>>

\* "31-12-2024", "01-01-2025" and "31-02-2025": all three match the query's
\* regex ^\d{2}-\d{2}-\d{4}$; the third is no calendar date.  As strings the
\* first is greater than the second, as dates it is earlier.
d_31_12_2024 == <<51, 49, 45, 49, 50, 45, 50, 48, 50, 52>>
d_01_01_2025 == <<48, 49, 45, 48, 49, 45, 50, 48, 50, 53>>
d_31_02_2025 == <<51, 49, 45, 48, 50, 45, 50, 48, 50, 53>>

\* "31-12-2024\n": Python's re lets $ match before a final newline, so this
\* passes the query's regex too; strptime does not accept it.
d_31_12_2024_newline == <<51, 49, 45, 49, 50, 45, 50, 48, 50, 52, 10>>

\* "31-12-2024" with the year in Arabic-Indic digits: \d of the query's
\* regex and of strptime's %Y matches every decimal digit, so this is the
\* date 31 December 2024 under another string
d_31_12_2024_arabic_indic == <<51, 49, 45, 49, 50, 45, 1634, 1632, 1634, 1636>>

\* The code points the model computes str.lower() for: Basic Latin, Latin-1
\* Supplement and Latin Extended-A, which hold the Turkish alphabet, and
\* Greek and Coptic.  Strings of gate names and cells are drawn from these.
Alphabet == (0..383) \cup (880..1023)

between(c, lo, hi) == c >= lo /\ c <= hi

\* The lower-case mapping of one code point, the capital sigma apart: one
\* code point, or two for the dotted capital I
lower_char(c) ==
    IF c < 128 THEN (IF c >= 65 /\ c <= 90 THEN <<c + 32>> ELSE <<c>>)
    ELSE IF between(c, 192, 214) \/ between(c, 216, 222)
            \/ between(c, 913, 929) \/ between(c, 931, 939)
    THEN <<c + 32>>
    ELSE IF c = 304 THEN <<105, 775>>
    ELSE IF c = 376 THEN <<255>>
    ELSE IF c % 2 = 0 /\ (between(c, 256, 311) \/ between(c, 330, 375)
                          \/ between(c, 984, 1007))
    THEN <<c + 1>>
    ELSE IF c % 2 = 1 /\ (between(c, 313, 328) \/ between(c, 377, 382))
    THEN <<c + 1>>
    ELSE IF c \in {880, 882, 886, 1015, 1018} THEN <<c + 1>>
    ELSE IF c = 895 THEN <<1011>>
    ELSE IF c = 902 THEN <<940>>
    ELSE IF between(c, 904, 906) THEN <<c + 37>>
    ELSE IF c = 908 THEN <<972>>
    ELSE IF between(c, 910, 911) THEN <<c + 63>>
    ELSE IF c = 975 THEN <<983>>
    ELSE IF c = 1012 THEN <<952>>
    ELSE IF c = 1017 THEN <<1010>>
    ELSE IF between(c, 1021, 1023) THEN <<c - 130>>
    ELSE <<c>>

\* Unicode Case_Ignorable and Cased, as the rule of the final sigma reads them
case_ignorable(c) ==
    c \in {39, 46, 58, 94, 96, 168, 173, 175, 180, 183, 184, 884, 885, 890,
           900, 901, 903} \cup (688..879)

cased(c) ==
    c \in (65..90) \cup (97..122) \cup {170, 181, 186} \cup (192..214)
          \cup (216..246) \cup (248..383) \cup (880..883) \cup {886, 887}
          \cup (891..893) \cup {895, 902} \cup (904..906) \cup {908}
          \cup (910..929) \cup (931..1013) \cup (1015..1023)

\* The capital sigma at s[i] ends a word: a cased letter before it and none
\* after it, letters that are case-ignorable skipped
final_sigma(s, i) ==
    LET before == {j \in 1..(i - 1) : ~case_ignorable(s[j])}
        after == {j \in (i + 1)..Len(s) : ~case_ignorable(s[j])}
    IN  /\ before # {}
        /\ cased(s[CHOOSE j \in before : \A k \in before : k <= j])
        /\ after # {} => ~cased(s[CHOOSE j \in after : \A k \in after : j <= k])

\* str.lower() from position i on
RECURSIVE lower_from(_, _)
lower_from(s, i) ==
    IF i > Len(s) THEN <<>>
    ELSE (IF s[i] = 931
          THEN (IF final_sigma(s, i) THEN <<962>> ELSE <<963>>)
          ELSE lower_char(s[i])) \o lower_from(s, i + 1)

\* str.lower()
lower(s) == lower_from(s, 1)

\* str < str: lexicographic by code point, a proper prefix is smaller
str_less(s, t) ==
    \E i \in 1..(Len(s) + 1) :
        /\ \A j \in 1..(i - 1) : j <= Len(t) /\ s[j] = t[j]
        /\ \/ i = Len(s) + 1 /\ Len(t) >= i
           \/ i <= Len(s) /\ i <= Len(t) /\ s[i] < t[i]

RECURSIVE insert_sorted(_, _)
insert_sorted(x, l) ==
    IF l = <<>> THEN <<x>>
    ELSE IF str_less(x, Head(l)) THEN <<x>> \o l
    ELSE <<Head(l)>> \o insert_sorted(x, Tail(l))

\* sorted(list of str)
RECURSIVE sorted(_)
sorted(l) ==
    IF l = <<>> THEN <<>>
    ELSE insert_sorted(l[Len(l)], sorted(SubSeq(l, 1, Len(l) - 1)))

\* sep.join(list of str)
RECURSIVE join(_, _)
join(sep, l) ==
    IF l = <<>> THEN <<>>
    ELSE IF Len(l) = 1 THEN l[1]
    ELSE l[1] \o sep \o join(sep, Tail(l))

\* Python truthiness of an Optional list: None and [] are falsy
truthy(o) == o # None /\ Get(o) # <<>>

---------------------------------------------------------------------------
(* Dates: datetime.strptime(date_string, '%d-%m-%Y').  The directives     *)
(* match "3[0-1]|[1-2]\d|0[1-9]|[1-9]| [1-9]" for %d,                      *)
(* "1[0-2]|0[1-9]|[1-9]" for %m and "\d\d\d\d" for %Y, and the string has  *)
(* to end where the year ends.  The classes [0-1], [1-2], [1-9] hold ASCII *)
(* digits only; "\d" holds every decimal digit of Unicode.                 *)

\* The code points of the digit zero of every run of ten decimal digits
\* (category Nd, Unicode 14): "\d" of a str pattern matches all of them and
\* int() reads them by their value
DigitZeros ==
    {48, 1632, 1776, 1984, 2406, 2534, 2662, 2790, 2918, 3046, 3174, 3302,
     3430, 3558, 3664, 3792, 3872, 4160, 4240, 6112, 6160, 6470, 6608, 6784,
     6800, 6992, 7088, 7232, 7248, 42528, 43216, 43264, 43472, 43504, 43600,
     44016, 65296, 66720, 68912, 69734, 69872, 69942, 70096, 70384, 70736,
     70864, 71248, 71360, 71472, 71904, 72016, 72784, 73040, 73120, 92768,
     92864, 93008, 120782, 120792, 120802, 120812, 120822, 123200, 123632,
     125264, 130032}

is_digit(c) ==
    \/ c >= 48 /\ c <= 57
    \/ c >= 1632 /\ \E z \in DigitZeros : c >= z /\ c <= z + 9

digit(c) ==
    IF c <= 57 THEN c - 48
    ELSE c - (CHOOSE z \in DigitZeros : c >= z /\ c <= z + 9)

\* The text of s from position i on is a day (or a month) of n characters
\* followed by "-"
field_at(s, i, n, is_day) ==
    /\ i + n <= Len(s)
    /\ s[i + n] = 45
    /\ IF n = 1 THEN s[i] \in 49..57
       ELSE \/ is_day /\ s[i] = 51 /\ s[i + 1] \in 48..49
            \/ is_day /\ s[i] \in 49..50 /\ is_digit(s[i + 1])
            \/ is_day /\ s[i] = 32 /\ s[i + 1] \in 49..57
            \/ ~is_day /\ s[i] = 49 /\ s[i + 1] \in 48..50
            \/ s[i] = 48 /\ s[i + 1] \in 49..57

field_value(s, i, n) ==
    IF n = 1 THEN digit(s[i])
    ELSE (IF s[i] = 32 THEN 0 ELSE 10 * digit(s[i])) + digit(s[i + 1])

is_leap(y) == (y % 4 = 0 /\ y % 100 # 0) \/ y % 400 = 0

days_in_month(y, m) ==
    IF m = 2 THEN (IF is_leap(y) THEN 29 ELSE 28)
    ELSE IF m \in {4, 6, 9, 11} THEN 30
    ELSE 31

\* None stands for ValueError, otherwise the date as <<year, month, day>>
strptime(s) ==
    LET n == IF field_at(s, 1, 2, TRUE) THEN 2
             ELSE IF field_at(s, 1, 1, TRUE) THEN 1 ELSE 0
        m == IF n = 0 THEN 0
             ELSE IF field_at(s, n + 2, 2, FALSE) THEN 2
             ELSE IF field_at(s, n + 2, 1, FALSE) THEN 1 ELSE 0
        k == n + m + 2
    IN  IF n = 0 \/ m = 0 \/ Len(s) # k + 4
           \/ \E i \in (k + 1)..(k + 4) : ~is_digit(s[i])
        THEN None
        ELSE LET day == field_value(s, 1, n)
                 month == field_value(s, n + 2, m)
                 year == 1000 * digit(s[k + 1]) + 100 * digit(s[k + 2])
                         + 10 * digit(s[k + 3]) + digit(s[k + 4])
             IN  IF year >= 1 /\ month >= 1 /\ month <= 12
                    /\ day >= 1 /\ day <= days_in_month(year, month)
                 THEN Some(<<year, month, day>>)
                 ELSE None

validate_date_format(date_string) == strptime(date_string) # None

\* datetime > datetime
dt_greater(a, b) ==
    \/ a[1] > b[1]
    \/ a[1] = b[1] /\ a[2] > b[2]
    \/ a[1] = b[1] /\ a[2] = b[2] /\ a[3] > b[3]

---------------------------------------------------------------------------
(* The cache key, get_border_gate_data line 366 *)

cache_key_dropping_sort(start_date, end_date, gates) ==
    s_border_data \o start_date \o s_underscore \o end_date \o s_underscore
        \o join(s_underscore, IF truthy(gates) THEN Get(gates) ELSE <<s_all>>)

cache_key(start_date, end_date, gates) ==
    s_border_data \o start_date \o s_underscore \o end_date \o s_underscore
        \o join(s_underscore, IF truthy(gates) THEN sorted(Get(gates)) ELSE <<s_all>>)

---------------------------------------------------------------------------
(* apply_border_filter *)

apply_border_filter_skipping_first_row(data, gate_names) ==
    IF ~truthy(gate_names) THEN data
    ELSE LET names == Get(gate_names)
             gate_names_lower == [i \in 1..Len(names) |-> lower(names[i])]
         IN  SelectSeq(IF data = <<>> THEN data ELSE Tail(data), LAMBDA row :
                 row # <<>> /\ \E i \in 1..Len(names) :
                                   lower(row[1]) = gate_names_lower[i])

apply_border_filter_always_dropping_empty_rows(data, gate_names) ==
    IF ~truthy(gate_names) THEN SelectSeq(data, LAMBDA row : row # <<>>)
    ELSE LET names == Get(gate_names)
             gate_names_lower == [i \in 1..Len(names) |-> lower(names[i])]
         IN  SelectSeq(data, LAMBDA row :
                 row # <<>> /\ \E i \in 1..Len(names) :
                                   lower(row[1]) = gate_names_lower[i])

apply_border_filter_case_sensitive(data, gate_names) ==
    IF ~truthy(gate_names) THEN data
    ELSE LET names == Get(gate_names)
         IN  SelectSeq(data, LAMBDA row :
                 row # <<>> /\ \E i \in 1..Len(names) : row[1] = names[i])

apply_border_filter(data, gate_names) ==
    IF ~truthy(gate_names) THEN data
    ELSE LET names == Get(gate_names)
             gate_names_lower == [i \in 1..Len(names) |-> lower(names[i])]
         IN  SelectSeq(data, LAMBDA row :
                 row # <<>> /\ \E i \in 1..Len(names) :
                                   lower(row[1]) = gate_names_lower[i])

---------------------------------------------------------------------------
(* CacheManager.  The dict is a function from keys to (data, timestamp);   *)
(* the operators take the dict and the reading of time.time() and return   *)
(* what the method returns and the dict it leaves.                         *)

EmptyCache == [k \in {} |-> k]

dict_del(c, key) == [k \in (DOMAIN c) \ {key} |-> c[k]]

dict_put(c, key, value) ==
    [k \in (DOMAIN c) \cup {key} |-> IF k = key THEN value ELSE c[k]]

get_cached_data_keeping_expired(c, key, t) ==
    IF key \in DOMAIN c /\ t - c[key].timestamp < CACHE_TIMEOUT_SECONDS
    THEN [ret |-> Some(c[key].data), cache |-> c]
    ELSE [ret |-> None, cache |-> c]

get_cached_data_ttl_inclusive(c, key, t) ==
    IF key \in DOMAIN c
    THEN IF t - c[key].timestamp <= CACHE_TIMEOUT_SECONDS
         THEN [ret |-> Some(c[key].data), cache |-> c]
         ELSE [ret |-> None, cache |-> dict_del(c, key)]
    ELSE [ret |-> None, cache |-> c]

get_cached_data_purging_all_expired(c, key, t) ==
    LET live == {k \in DOMAIN c : t - c[k].timestamp < CACHE_TIMEOUT_SECONDS}
        purged == [k \in live |-> c[k]]
    IN  IF key \in live
        THEN [ret |-> Some(c[key].data), cache |-> purged]
        ELSE [ret |-> None, cache |-> purged]

get_cached_data(c, key, t) ==
    IF key \in DOMAIN c
    THEN IF t - c[key].timestamp < CACHE_TIMEOUT_SECONDS
         THEN [ret |-> Some(c[key].data), cache |-> c]
         ELSE [ret |-> None, cache |-> dict_del(c, key)]
    ELSE [ret |-> None, cache |-> c]

set_cached_data_keep_existing(c, key, data, t) ==
    IF key \in DOMAIN c THEN c
    ELSE dict_put(c, key, [data |-> data, timestamp |-> t])

set_cached_data_replacing_dict(c, key, data, t) ==
    dict_put(EmptyCache, key, [data |-> data, timestamp |-> t])

set_cached_data(c, key, data, t) ==
    dict_put(c, key, [data |-> data, timestamp |-> t])

get_cache_stats(c) ==
    [active_entries |-> Cardinality(DOMAIN c),
     timeout_seconds |-> CACHE_TIMEOUT_SECONDS]

---------------------------------------------------------------------------
(* fetch_border_data.  What the upstream does is an input:                 *)
(*   kind "timeout"    httpx.TimeoutException                              *)
(*   kind "exception"  any other exception (connection, DNS, TLS)          *)
(*   kind "response"   a response with a status and a document; the        *)
(*                     document has its first table or none.               *)
(* A table is the sequence of its tr elements, a tr the sequence of its    *)
(* cells, a cell [tag |-> "td" or "th", children |-> nodes], and a node a  *)
(* text node [text |-> string] or a nested table [table |-> rows].         *)

\* str.isspace(): the characters str.strip() removes
is_space(c) ==
    c \in (9..13) \cup (28..32) \cup {133, 160, 5760} \cup (8192..8202)
          \cup {8232, 8233, 8239, 8287, 12288}

\* str.strip()
RECURSIVE lstrip(_)
lstrip(s) == IF s # <<>> /\ is_space(Head(s)) THEN lstrip(Tail(s)) ELSE s

RECURSIVE rstrip(_)
rstrip(s) ==
    IF s # <<>> /\ is_space(s[Len(s)]) THEN rstrip(SubSeq(s, 1, Len(s) - 1)) ELSE s

strip(s) == rstrip(lstrip(s))

is_text(node) == "text" \in DOMAIN node

\* The text nodes below a cell, a row and a table, in document order
RECURSIVE cell_strings(_), row_strings(_), table_strings(_)
cell_strings(nodes) ==
    IF nodes = <<>> THEN <<>>
    ELSE (IF is_text(Head(nodes)) THEN <<Head(nodes).text>>
          ELSE table_strings(Head(nodes).table)) \o cell_strings(Tail(nodes))

row_strings(cells) ==
    IF cells = <<>> THEN <<>>
    ELSE cell_strings(Head(cells).children) \o row_strings(Tail(cells))

table_strings(rows) ==
    IF rows = <<>> THEN <<>>
    ELSE row_strings(Head(rows)) \o table_strings(Tail(rows))

\* find_all("td"): the td elements below a row, in document order
RECURSIVE nodes_tds(_), cells_tds(_), rows_tds(_)
nodes_tds(nodes) ==
    IF nodes = <<>> THEN <<>>
    ELSE (IF is_text(Head(nodes)) THEN <<>> ELSE rows_tds(Head(nodes).table))
         \o nodes_tds(Tail(nodes))

cells_tds(cells) ==
    IF cells = <<>> THEN <<>>
    ELSE (IF Head(cells).tag = "td" THEN <<Head(cells)>> ELSE <<>>)
         \o nodes_tds(Head(cells).children) \o cells_tds(Tail(cells))

rows_tds(rows) ==
    IF rows = <<>> THEN <<>>
    ELSE cells_tds(Head(rows)) \o rows_tds(Tail(rows))

find_all_td(row) == cells_tds(row)

\* find_all("tr"): the tr elements below a table, in document order
RECURSIVE nodes_trs(_), cells_trs(_), rows_trs(_)
nodes_trs(nodes) ==
    IF nodes = <<>> THEN <<>>
    ELSE (IF is_text(Head(nodes)) THEN <<>> ELSE rows_trs(Head(nodes).table))
         \o nodes_trs(Tail(nodes))

cells_trs(cells) ==
    IF cells = <<>> THEN <<>>
    ELSE nodes_trs(Head(cells).children) \o cells_trs(Tail(cells))

rows_trs(rows) ==
    IF rows = <<>> THEN <<>>
    ELSE <<Head(rows)>> \o cells_trs(Head(rows)) \o rows_trs(Tail(rows))

find_all_tr(table) == rows_trs(table)

RECURSIVE concat(_)
concat(strings) ==
    IF strings = <<>> THEN <<>> ELSE Head(strings) \o concat(Tail(strings))

\* col.get_text(strip=True): every text node stripped, then joined
get_text(col) ==
    LET strings == cell_strings(col.children)
    IN  concat([i \in 1..Len(strings) |-> strip(strings[i])])

get_text_without_strip(col) == concat(cell_strings(col.children))

parse_rows_without_strip(table) ==
    LET rows == find_all_tr(table)
        row_data(row) ==
            LET columns == find_all_td(row)
            IN  [i \in 1..Len(columns) |-> get_text_without_strip(columns[i])]
        all_rows == [k \in 1..Len(rows) |-> row_data(rows[k])]
    IN  SelectSeq(all_rows, LAMBDA r : r # <<>> /\ \E i \in 1..Len(r) : r[i] # <<>>)

\* lines 172-180: the loop over the rows.  A row without td gives no
\* row_data and is skipped at `if columns`.
parse_rows(table) ==
    LET rows == find_all_tr(table)
        row_data(row) ==
            LET columns == find_all_td(row)
            IN  [i \in 1..Len(columns) |-> get_text(columns[i])]
        all_rows == [k \in 1..Len(rows) |-> row_data(rows[k])]
    IN  SelectSeq(all_rows, LAMBDA r : r # <<>> /\ \E i \in 1..Len(r) : r[i] # <<>>)

\* f"Data source unavailable (HTTP {e.response.status_code})"
http_error_message(status) ==
    "Data source unavailable (HTTP " \o ToString(status) \o ")"

\* response.raise_for_status(): anything but 2xx raises
is_success(status) == status >= 200 /\ status <= 299

fetch_border_data_returning_empty_matrix(upstream) ==
    IF upstream.kind = "timeout"
    THEN [data |-> None, error |-> Some("Request timeout - please try again later")]
    ELSE IF upstream.kind = "exception"
    THEN [data |-> None, error |-> Some("Unexpected error occurred while fetching data")]
    ELSE IF ~is_success(upstream.status)
    THEN [data |-> None, error |-> Some(http_error_message(upstream.status))]
    ELSE IF upstream.table = None
    THEN [data |-> None, error |-> Some("No data table found on the source website")]
    ELSE [data |-> Some(parse_rows(Get(upstream.table))), error |-> None]

fetch_border_data(upstream) ==
    IF upstream.kind = "timeout"
    THEN [data |-> None, error |-> Some("Request timeout - please try again later")]
    ELSE IF upstream.kind = "exception"
    THEN [data |-> None, error |-> Some("Unexpected error occurred while fetching data")]
    ELSE IF ~is_success(upstream.status)
    THEN [data |-> None, error |-> Some(http_error_message(upstream.status))]
    ELSE IF upstream.table = None
    THEN [data |-> None, error |-> Some("No data table found on the source website")]
    ELSE LET data_matrix == parse_rows(Get(upstream.table))
         IN  IF data_matrix = <<>>
             THEN [data |-> None,
                   error |-> Some("No border gate data found in the specified date range")]
             ELSE [data |-> Some(data_matrix), error |-> None]

---------------------------------------------------------------------------
(* Responses of the endpoint *)

\* A text put together from fixed text and strings of the request is the
\* sequence of its pieces; the text is their concatenation.
NoResponse ==
    [status |-> 0, error_code |-> "", source |-> "", total_gates |-> 0,
     data |-> None, details |-> <<>>]

\* f"Received: {start_date}, Expected format: DD-MM-YYYY"
received(date_string) == <<"Received: ", date_string, ", Expected format: DD-MM-YYYY">>

\* f"Start: {start_date}, End: {end_date}"
start_end(start_date, end_date) == <<"Start: ", start_date, ", End: ", end_date>>

\* f"Date range: {start_date} to {end_date}"
date_range(start_date, end_date) == <<"Date range: ", start_date, " to ", end_date>>

\* raise HTTPException(status_code=..., detail={...})
http_exception(status_code, error_code, details) ==
    [status |-> status_code, error_code |-> error_code, source |-> "",
     total_gates |-> 0, data |-> None, details |-> details]

\* return BorderGatesResponse(success=True, source=..., data=...)
border_gates_response(source, data) ==
    [status |-> 200, error_code |-> "", source |-> source,
     total_gates |-> Len(data), data |-> Some(data), details |-> <<>>]

---------------------------------------------------------------------------
(* get_border_gate_data up to its only suspension point, the await of      *)
(* fetch_border_data (lines 327-386): the response it ends with, or None   *)
(* when it goes on to fetch, with the dict it leaves and the key it built. *)

\* line 370: if cached_data is not None
cache_hit_if_truthy(cached_data) == truthy(cached_data)

cache_hit(cached_data) == cached_data # None

before_fetch_checking_range_after_lookup(start_date, end_date, gates, c, t) ==
    IF ~validate_date_format(start_date)
    THEN [resp |-> Some(http_exception(400, "INVALID_START_DATE", received(start_date))),
          cache |-> c, cache_key |-> <<>>, looked_up |-> FALSE]
    ELSE IF ~validate_date_format(end_date)
    THEN [resp |-> Some(http_exception(400, "INVALID_END_DATE", received(end_date))),
          cache |-> c, cache_key |-> <<>>, looked_up |-> FALSE]
    ELSE LET key == cache_key(start_date, end_date, gates)
             got == get_cached_data(c, key, t)
         IN  IF cache_hit(got.ret)
             THEN [resp |-> Some(border_gates_response("cache", Get(got.ret))),
                   cache |-> got.cache, cache_key |-> key, looked_up |-> TRUE]
             ELSE IF dt_greater(Get(strptime(start_date)), Get(strptime(end_date)))
             THEN [resp |-> Some(http_exception(400, "INVALID_DATE_RANGE",
                                    start_end(start_date, end_date))),
                   cache |-> got.cache, cache_key |-> key, looked_up |-> TRUE]
             ELSE [resp |-> None,
                   cache |-> got.cache, cache_key |-> key, looked_up |-> TRUE]

before_fetch(start_date, end_date, gates, c, t) ==
    IF ~validate_date_format(start_date)
    THEN [resp |-> Some(http_exception(400, "INVALID_START_DATE", received(start_date))),
          cache |-> c, cache_key |-> <<>>, looked_up |-> FALSE]
    ELSE IF ~validate_date_format(end_date)
    THEN [resp |-> Some(http_exception(400, "INVALID_END_DATE", received(end_date))),
          cache |-> c, cache_key |-> <<>>, looked_up |-> FALSE]
    ELSE IF dt_greater(Get(strptime(start_date)), Get(strptime(end_date)))
    THEN [resp |-> Some(http_exception(400, "INVALID_DATE_RANGE",
                                    start_end(start_date, end_date))),
          cache |-> c, cache_key |-> <<>>, looked_up |-> FALSE]
    ELSE LET key == cache_key(start_date, end_date, gates)
             got == get_cached_data(c, key, t)
         IN  IF cache_hit(got.ret)
             THEN [resp |-> Some(border_gates_response("cache", Get(got.ret))),
                   cache |-> got.cache, cache_key |-> key, looked_up |-> TRUE]
             ELSE [resp |-> None,
                   cache |-> got.cache, cache_key |-> key, looked_up |-> TRUE]

(* get_border_gate_data from the return of fetch_border_data to its end    *)
(* (lines 386-431): the response, the dict it leaves and whether it called *)
(* set_cached_data.                                                        *)

after_fetch_caching_first(fetched, start_date, end_date, gates, key, c, t) ==
    LET raw == IF fetched.data = None THEN <<>> ELSE Get(fetched.data)
        filtered_data == apply_border_filter(raw, gates)
        stored == set_cached_data(c, key, filtered_data, t)
    IN  IF fetched.error # None /\ Get(fetched.error) # ""
        THEN [resp |-> http_exception(503, "DATA_SOURCE_ERROR", <<Get(fetched.error)>>),
              cache |-> stored, did_set |-> TRUE]
        ELSE IF ~truthy(fetched.data)
        THEN [resp |-> http_exception(404, "NO_DATA_FOUND",
                               date_range(start_date, end_date)),
              cache |-> stored, did_set |-> TRUE]
        ELSE [resp |-> border_gates_response("live", filtered_data),
              cache |-> stored, did_set |-> TRUE]

after_fetch_checking_data_first(fetched, start_date, end_date, gates, key, c, t) ==
    IF ~truthy(fetched.data)
    THEN [resp |-> http_exception(404, "NO_DATA_FOUND",
                               date_range(start_date, end_date)),
          cache |-> c, did_set |-> FALSE]
    ELSE IF fetched.error # None /\ Get(fetched.error) # ""
    THEN [resp |-> http_exception(503, "DATA_SOURCE_ERROR", <<Get(fetched.error)>>),
          cache |-> c, did_set |-> FALSE]
    ELSE LET filtered_data == apply_border_filter(Get(fetched.data), gates)
         IN  [resp |-> border_gates_response("live", filtered_data),
              cache |-> set_cached_data(c, key, filtered_data, t),
              did_set |-> TRUE]

after_fetch_caching_raw_data(fetched, start_date, end_date, gates, key, c, t) ==
    IF fetched.error # None /\ Get(fetched.error) # ""
    THEN [resp |-> http_exception(503, "DATA_SOURCE_ERROR", <<Get(fetched.error)>>),
          cache |-> c, did_set |-> FALSE]
    ELSE IF ~truthy(fetched.data)
    THEN [resp |-> http_exception(404, "NO_DATA_FOUND",
                               date_range(start_date, end_date)),
          cache |-> c, did_set |-> FALSE]
    ELSE LET filtered_data == apply_border_filter(Get(fetched.data), gates)
         IN  [resp |-> border_gates_response("live", filtered_data),
              cache |-> set_cached_data(c, key, Get(fetched.data), t),
              did_set |-> TRUE]

after_fetch(fetched, start_date, end_date, gates, key, c, t) ==
    IF fetched.error # None /\ Get(fetched.error) # ""
    THEN [resp |-> http_exception(503, "DATA_SOURCE_ERROR", <<Get(fetched.error)>>),
          cache |-> c, did_set |-> FALSE]
    ELSE IF ~truthy(fetched.data)
    THEN [resp |-> http_exception(404, "NO_DATA_FOUND",
                               date_range(start_date, end_date)),
          cache |-> c, did_set |-> FALSE]
    ELSE LET filtered_data == apply_border_filter(Get(fetched.data), gates)
         IN  [resp |-> border_gates_response("live", filtered_data),
              cache |-> set_cached_data(c, key, filtered_data, t),
              did_set |-> TRUE]

---------------------------------------------------------------------------
(* Inputs *)

SeqsUpTo(S, n) == UNION {[1..k -> S] : k \in 0..n}

\* Two inputs sets.  The small one: one date, and for gates no filter, a
\* name no row bears ("all", which is also the key's sentinel for no filter)
\* and a list in its two orders.  With it a third request and a longer run
\* stay within reach of the model checker.
Dates == {d_31_12_2024}

FilterLists == {None, Some(<<s_all>>), Some(<<s_a, s_b>>), Some(<<s_b, s_a>>)}

\* The wide one: three dates (three valid ranges, an inverted range, a date
\* that is none), a string strptime rejects, a second spelling of the first
\* date, and also repeated names and a name that holds the key's separator
\* ("a_b").
WideDates ==
    {d_31_12_2024, d_01_01_2025, d_31_02_2025, d_31_12_2024_newline,
     d_31_12_2024_arabic_indic}

WideFilterLists ==
    {None, Some(<<s_a>>), Some(<<s_a, s_a>>), Some(<<s_all>>),
     Some(<<s_a, s_b>>), Some(<<s_b, s_a>>), Some(<<s_a_b>>)}

\* <td>s</td> and <th>s</th>
Td(s) == [tag |-> "td", children |-> IF s = <<>> THEN <<>> ELSE <<[text |-> s]>>]
Th(s) == [tag |-> "th", children |-> IF s = <<>> THEN <<>> ELSE <<[text |-> s]>>]

\* A table of a header row, the rows " a "|"x" and "b"|"x", and a spacer row
TableAB ==
    <<<<Th(s_x), Th(s_x)>>, <<Td(s_a_padded), Td(s_x)>>, <<Td(s_b), Td(s_x)>>,
      <<Td(s_blank), Td(s_empty)>>>>

\* A table whose only gate is "A"
TableA == <<<<Td(s_A), Td(s_x)>>>>

\* A table with nothing but a header row and a spacer row
TableBlank == <<<<Th(s_x)>>, <<Td(s_nbsp)>>>>

Upstreams ==
    {[kind |-> "timeout", status |-> 0, table |-> None],
     [kind |-> "exception", status |-> 0, table |-> None],
     [kind |-> "response", status |-> 503, table |-> None],
     [kind |-> "response", status |-> 200, table |-> None],
     [kind |-> "response", status |-> 200, table |-> Some(TableBlank)],
     [kind |-> "response", status |-> 200, table |-> Some(TableAB)],
     [kind |-> "response", status |-> 200, table |-> Some(TableA)]}

\* What the await of fetch_border_data can return
FetchResults == {fetch_border_data(upstream) : upstream \in Upstreams}

---------------------------------------------------------------------------
(* The state machine.  A request is idle, then either done at once (an     *)
(* invalid input, a cache hit) or fetching, and done when the upstream has *)
(* answered.  Everything between two awaits runs without interleaving.     *)

InitRequest ==
    [pc |-> "idle", start_date |-> <<>>, end_date |-> <<>>, gates |-> None,
     cache_key |-> <<>>, fetched |-> [data |-> None, error |-> None],
     resp |-> NoResponse,
     \* history: the fetches issued, the entry the lookup found, the number
     \* of sets that preceded the lookup, the time and the number of the set
     fetches |-> 0, found |-> None, get_no |-> -1, t_set |-> -1, set_no |-> 0]

Init ==
    /\ now = 0
    /\ cache = EmptyCache
    /\ req = [r \in Requests |-> InitRequest]
    /\ nset = 0
    /\ probe = [op |-> "none"]

\* Time passes
Tick ==
    /\ now < MaxTicks * TimeStep
    /\ now' = now + TimeStep
    /\ UNCHANGED <<cache, req, nset, probe>>

\* A request arrives and runs to its response or to the await of the fetch.
\* Requests are interchangeable: they arrive in the order of their numbers.
Begin(r, start_date, end_date, gates) ==
    /\ req[r].pc = "idle"
    /\ \A q \in Requests : q < r => req[q].pc # "idle"
    /\ LET b == before_fetch(start_date, end_date, gates, cache, now)
       IN  /\ cache' = b.cache
           /\ req' = [req EXCEPT ![r] =
                  [@ EXCEPT !.pc = IF b.resp = None THEN "fetching" ELSE "done",
                            !.start_date = start_date,
                            !.end_date = end_date,
                            !.gates = gates,
                            !.cache_key = b.cache_key,
                            !.resp = IF b.resp = None THEN NoResponse ELSE Get(b.resp),
                            !.found = IF b.looked_up /\ b.cache_key \in DOMAIN cache
                                      THEN Some(cache[b.cache_key]) ELSE None,
                            !.fetches = IF b.resp = None THEN 1 ELSE 0,
                            !.get_no = IF b.looked_up THEN nset ELSE -1]]
    /\ UNCHANGED <<now, nset, probe>>

\* The upstream answers a fetching request, which runs to its response
Complete(r, fetched) ==
    /\ req[r].pc = "fetching"
    /\ LET a == after_fetch(fetched, req[r].start_date, req[r].end_date, req[r].gates,
                           req[r].cache_key, cache, now)
       IN  /\ cache' = a.cache
           /\ nset' = IF a.did_set THEN nset + 1 ELSE nset
           /\ req' = [req EXCEPT ![r] =
                  [@ EXCEPT !.pc = "done",
                            !.fetched = fetched,
                            !.resp = a.resp,
                            !.t_set = IF a.did_set THEN now ELSE -1,
                            !.set_no = IF a.did_set THEN nset + 1 ELSE 0]]
    /\ UNCHANGED <<now, probe>>

Next ==
    \/ Tick
    \/ \E r \in Requests, start_date \in Dates, end_date \in Dates,
          gates \in FilterLists : Begin(r, start_date, end_date, gates)
    \/ \E r \in Requests, fetched \in FetchResults : Complete(r, fetched)

Spec == Init /\ [][Next]_vars

\* The same program over the wide inputs
WideNext ==
    \/ Tick
    \/ \E r \in Requests, start_date \in WideDates, end_date \in WideDates,
          gates \in WideFilterLists : Begin(r, start_date, end_date, gates)
    \/ \E r \in Requests, fetched \in FetchResults : Complete(r, fetched)

WideSpec == Init /\ [][WideNext]_vars

---------------------------------------------------------------------------
(* apply_border_filter on its own: the initial states draw the matrix and *)
(* the name list, the action applies the function.                         *)

\* Rows: one with no column, and gates "a", "A", "b", "B" and "Ç"
FilterRows == {<<>>, <<s_a, s_x>>, <<s_A>>, <<s_b>>, <<s_B, s_x>>, <<s_C_cedilla>>}

\* Names: "x" is the second column of some rows and the first of none
FilterNames == {s_a, s_A, s_b, s_x, s_c_cedilla}

FilterInit ==
    /\ now = 0
    /\ cache = EmptyCache
    /\ req = [r \in Requests |-> InitRequest]
    /\ nset = 0
    /\ \E data \in SeqsUpTo(FilterRows, MaxRows),
          gate_names \in {None} \cup {Some(l) : l \in SeqsUpTo(FilterNames, MaxNames)} :
           probe = [op |-> "call", data |-> data, gate_names |-> gate_names,
                    out |-> <<>>]

ApplyFilter ==
    /\ probe.op = "call"
    /\ probe' = [probe EXCEPT !.op = "return",
                              !.out = apply_border_filter(probe.data, probe.gate_names)]
    /\ UNCHANGED <<now, cache, req, nset>>

\* The function applied to its own output, with the same names
ApplyFilterAgain ==
    /\ probe.op = "return"
    /\ probe' = [op |-> "again", data |-> probe.data,
                 gate_names |-> probe.gate_names, out |-> probe.out,
                 again |-> apply_border_filter(probe.out, probe.gate_names)]
    /\ UNCHANGED <<now, cache, req, nset>>

FilterNext == ApplyFilter \/ ApplyFilterAgain

FilterSpec == FilterInit /\ [][FilterNext]_vars

---------------------------------------------------------------------------
(* Vocabulary of the properties *)

\* Request r arrives in this step
Begins(r) == req[r].pc = "idle" /\ req'[r].pc # "idle"

\* The upstream answers request r in this step
Completes(r) == req[r].pc = "fetching" /\ req'[r].pc = "done"

\* Request r called set_cached_data
Stored(r) == req[r].set_no > 0

\* Request r was the last to call set_cached_data for its key
LastToStore(r) ==
    /\ Stored(r)
    /\ \A q \in Requests :
           req[q].cache_key = req[r].cache_key => req[q].set_no <= req[r].set_no

\* The upstream fetch of request r failed
FetchFailed(r) == req[r].pc = "done" /\ req[r].fetches = 1 /\ req[r].fetched.error # None

\* The upstream fetch of request r gave a matrix
FetchSucceeded(r) == req[r].pc = "done" /\ req[r].fetches = 1 /\ req[r].fetched.data # None

SameRange(r, q) ==
    req[r].start_date = req[q].start_date /\ req[r].end_date = req[q].end_date

\* The names of a gates parameter, as a set
NameSet(gates) ==
    IF truthy(gates) THEN {Get(gates)[i] : i \in 1..Len(Get(gates))} ELSE {}

Occurrences(l, x) == Cardinality({i \in 1..Len(l) : l[i] = x})

\* Two gates parameters that are lists, one a reordering of the other
IsPermutation(g, h) ==
    /\ g # None /\ h # None
    /\ Len(Get(g)) = Len(Get(h))
    /\ \A x \in NameSet(g) \cup NameSet(h) :
           Occurrences(Get(g), x) = Occurrences(Get(h), x)

---------------------------------------------------------------------------
(* C1: when a request r1 has stored its result and the identical request  *)
(* r2 arrives less than the TTL later, no other request having written    *)
(* the entry in between, r2 is answered at once with source "cache" and    *)
(* the matrix r1 returned, and the two issue one upstream fetch in all.    *)
(* This includes filter lists that match no row (an empty matrix).         *)
C1_SecondCallServedFromCache ==
    [][\A r1, r2 \in Requests :
          ( /\ r1 # r2
            /\ Begins(r2)
            /\ req[r1].pc = "done" /\ LastToStore(r1)
            /\ SameRange(r1, r2)' /\ req'[r2].gates = req[r1].gates
            /\ now - req[r1].t_set < CACHE_TIMEOUT_SECONDS )
          => ( /\ req'[r2].pc = "done"
               /\ req'[r2].resp.status = 200
               /\ req'[r2].resp.source = "cache"
               /\ req'[r2].resp.data = req[r1].resp.data
               /\ req[r1].fetches + req'[r2].fetches <= 1 )]_vars

\* An identical second request was served from the cache an empty matrix
\* that the first one stored some time before.
C1_Witness ==
    \E r1, r2 \in Requests :
        /\ r1 # r2
        /\ req[r1].pc = "done" /\ req[r2].pc = "done"
        /\ SameRange(r1, r2) /\ req[r1].gates = req[r2].gates
        /\ req[r1].resp.source = "live" /\ req[r2].resp.source = "cache"
        /\ req[r2].get_no >= req[r1].set_no
        /\ req[r1].resp.data = Some(<<>>) /\ req[r2].resp.data = Some(<<>>)
        /\ req[r2].found # None /\ now > Get(req[r2].found).timestamp
        /\ req[r1].fetches = 1 /\ req[r2].fetches = 0

---------------------------------------------------------------------------
(* C2: a response with source "cache" carries the result of filtering a   *)
(* matrix fetched for the request's own date range with the request's own *)
(* gate names.                                                             *)
C2_CacheAnswersOwnRequest ==
    \A r \in Requests :
        (req[r].pc = "done" /\ req[r].resp.source = "cache")
        => \E q \in Requests :
               /\ FetchSucceeded(q)
               /\ SameRange(q, r)
               /\ req[r].resp.data =
                      Some(apply_border_filter(Get(req[q].fetched.data), req[r].gates))

---------------------------------------------------------------------------
(* C3: when the upstream fetch of a request fails (timeout, transport     *)
(* error, non-2xx status, no table, no data rows) the request ends with   *)
(* the 503 DATA_SOURCE_ERROR response and the store is left as it was: no  *)
(* set_cached_data call, no entry created.                                 *)
C3_FailedFetchStoresNothing ==
    [][\A r \in Requests :
          (Completes(r) /\ req'[r].fetched.error # None)
          => ( /\ req'[r].resp.status = 503
               /\ req'[r].resp.error_code = "DATA_SOURCE_ERROR"
               /\ req'[r].resp.data = None
               /\ req'[r].set_no = 0
               /\ nset' = nset
               /\ cache' = cache )]_vars

\* The upstream answered HTTP 503: the request failed and its key has no entry
C3_Witness ==
    \E r \in Requests :
        /\ FetchFailed(r)
        /\ req[r].fetched.error = Some("Data source unavailable (HTTP 503)")
        /\ req[r].resp.status = 503
        /\ req[r].cache_key \notin DOMAIN cache

---------------------------------------------------------------------------
(* C4: a lookup at time now of a key whose entry was inserted at time t:  *)
(* when now - t < TTL the stored matrix is returned and the entry stays   *)
(* as it is; when now - t >= TTL, the boundary now - t = TTL included,    *)
(* nothing is returned (the request goes on to fetch) and the entry is    *)
(* no longer in the store.                                                 *)
C4_LookupHonoursTTL ==
    [][\A r \in Requests :
          (Begins(r) /\ req'[r].get_no >= 0 /\ req'[r].cache_key \in DOMAIN cache)
          => LET k == req'[r].cache_key
                 e == cache[k]
             IN  IF now - e.timestamp < CACHE_TIMEOUT_SECONDS
                 THEN /\ req'[r].pc = "done"
                      /\ req'[r].resp.source = "cache"
                      /\ req'[r].resp.data = Some(e.data)
                      /\ k \in DOMAIN cache' /\ cache'[k] = e
                 ELSE /\ req'[r].pc = "fetching"
                      /\ k \notin DOMAIN cache']_vars

\* A lookup found an entry exactly TTL old: it missed and the entry is gone.
\* (The request is still fetching and the clock reads insertion time + TTL,
\* so the lookup, which cannot have hit earlier, happened at this reading.)
C4_Witness ==
    \E r \in Requests :
        /\ req[r].pc = "fetching"
        /\ req[r].found # None
        /\ now - Get(req[r].found).timestamp = CACHE_TIMEOUT_SECONDS
        /\ req[r].cache_key \notin DOMAIN cache

---------------------------------------------------------------------------
(* C5: for one date range, two filter lists that are permutations of one  *)
(* another give the same cache key, and the second request, arriving less *)
(* than the TTL after the first stored its result, is served that entry.   *)
C5_PermutedFiltersShareEntry ==
    [][\A r1, r2 \in Requests :
          ( /\ r1 # r2
            /\ Begins(r2) /\ req'[r2].get_no >= 0
            /\ req[r1].get_no >= 0
            /\ SameRange(r1, r2)'
            /\ IsPermutation(req[r1].gates, req'[r2].gates) )
          => ( /\ req'[r2].cache_key = req[r1].cache_key
               /\ ( ( /\ req[r1].pc = "done" /\ LastToStore(r1)
                      /\ now - req[r1].t_set < CACHE_TIMEOUT_SECONDS )
                    => ( /\ req'[r2].resp.source = "cache"
                         /\ req'[r2].resp.data = req[r1].resp.data ) ) )]_vars

\* A request for [b, a] was served the rows that a request for [a, b] stored
C5_Witness ==
    \E r1, r2 \in Requests :
        /\ req[r1].pc = "done" /\ req[r2].pc = "done"
        /\ SameRange(r1, r2)
        /\ req[r1].gates = Some(<<s_a, s_b>>) /\ req[r2].gates = Some(<<s_b, s_a>>)
        /\ req[r1].resp.source = "live" /\ req[r2].resp.source = "cache"
        /\ req[r2].resp.data = req[r1].resp.data
        /\ req[r1].resp.total_gates = 2

---------------------------------------------------------------------------
(* C6: for one date range, two filter lists with the same set of names    *)
(* (differing only in how often a name is repeated) give the same key.     *)
C6_KeyIgnoresRepeats ==
    \A r1, r2 \in Requests :
        ( /\ req[r1].get_no >= 0 /\ req[r2].get_no >= 0
          /\ SameRange(r1, r2)
          /\ truthy(req[r1].gates) /\ truthy(req[r2].gates)
          /\ NameSet(req[r1].gates) = NameSet(req[r2].gates) )
        => req[r1].cache_key = req[r2].cache_key

---------------------------------------------------------------------------
(* C7: when the fetch succeeds and filtering leaves no row, the request   *)
(* ends with the NO_DATA_FOUND failure and not with a successful result.   *)
C7_EmptyAfterFilterIsNotFound ==
    \A r \in Requests :
        ( /\ FetchSucceeded(r)
          /\ apply_border_filter(Get(req[r].fetched.data), req[r].gates) = <<>> )
        => ( /\ req[r].resp.status # 200
             /\ req[r].resp.error_code = "NO_DATA_FOUND" )

---------------------------------------------------------------------------
(* C8: a request whose lookup found an entry and went on to fetch (the    *)
(* entry had expired) and whose fetch failed ends with an error that      *)
(* carries no matrix, and the entry it found is not in the store.          *)
C8_NoStaleFallback ==
    \A r \in Requests :
        (FetchFailed(r) /\ req[r].found # None)
        => ( /\ req[r].resp.status = 503
             /\ req[r].resp.data = None
             /\ ~( /\ req[r].cache_key \in DOMAIN cache
                   /\ cache[req[r].cache_key] = Get(req[r].found) ) )

\* A request found an expired entry, its fetch timed out, its key has no entry
C8_Witness ==
    \E r \in Requests :
        /\ FetchFailed(r) /\ req[r].found # None
        /\ now - Get(req[r].found).timestamp >= CACHE_TIMEOUT_SECONDS
        /\ req[r].fetched.error = Some("Request timeout - please try again later")
        /\ req[r].resp.status = 503
        /\ req[r].cache_key \notin DOMAIN cache

---------------------------------------------------------------------------
(* C9: two requests with one key that both looked up before either        *)
(* stored both fetch, both answer source "live" with their own fetched    *)
(* and filtered matrix, and both write the entry; the entry left is the   *)
(* one of the request that called set last.                                *)
C9_LastWriteWins ==
    \A r1, r2 \in Requests :
        ( /\ r1 # r2
          /\ req[r1].pc = "done" /\ req[r2].pc = "done"
          /\ req[r1].cache_key = req[r2].cache_key
          /\ Stored(r1) /\ Stored(r2)
          /\ req[r1].get_no < req[r1].set_no /\ req[r2].get_no < req[r1].set_no
          /\ req[r1].set_no < req[r2].set_no )
        => ( /\ \A r \in {r1, r2} :
                    /\ req[r].fetches = 1
                    /\ req[r].resp.source = "live"
                    /\ req[r].resp.data =
                           Some(apply_border_filter(Get(req[r].fetched.data), req[r].gates))
             /\ (LastToStore(r2) /\ req[r2].cache_key \in DOMAIN cache)
                => cache[req[r2].cache_key] =
                       [data |-> Get(req[r2].resp.data), timestamp |-> req[r2].t_set] )

\* Two identical requests overlapped, fetched different tables, answered
\* "live" with different matrices; the store holds the later writer's.
C9_Witness ==
    \E r1, r2 \in Requests :
        /\ r1 # r2
        /\ req[r1].pc = "done" /\ req[r2].pc = "done"
        /\ SameRange(r1, r2) /\ req[r1].gates = req[r2].gates
        /\ req[r1].cache_key = req[r2].cache_key
        /\ req[r1].get_no = 0 /\ req[r2].get_no = 0
        /\ req[r1].set_no = 1 /\ req[r2].set_no = 2
        /\ req[r1].resp.source = "live" /\ req[r2].resp.source = "live"
        /\ req[r1].resp.data # req[r2].resp.data
        /\ req[r2].t_set > req[r1].t_set
        /\ cache[req[r1].cache_key] =
               [data |-> Get(req[r2].resp.data), timestamp |-> req[r2].t_set]

---------------------------------------------------------------------------
(* C10: with a non-empty name list, apply_border_filter(M, names) is the  *)
(* rows of M that have a column and whose column 0 equals some name when  *)
(* case is ignored, in the order they have in M; rows without a column    *)
(* are left out.                                                           *)

\* Two characters equal up to the case of a letter of ASCII or Latin-1
SameLetter(c, d) ==
    \/ c = d
    \/ c \in (65..90) \cup (192..214) \cup (216..222) /\ d = c + 32
    \/ d \in (65..90) \cup (192..214) \cup (216..222) /\ c = d + 32

EqualIgnoringCase(s, u) ==
    Len(s) = Len(u) /\ \A i \in 1..Len(s) : SameLetter(s[i], u[i])

\* The indices of the rows of M that the names select
Selected(M, names) ==
    {i \in 1..Len(M) :
        Len(M[i]) >= 1 /\ \E j \in 1..Len(names) : EqualIgnoringCase(M[i][1], names[j])}

\* The k-th smallest element of a set of numbers
KthSmallest(S, k) == CHOOSE i \in S : Cardinality({j \in S : j <= i}) = k

C10_FilterKeepsMatchingRowsInOrder ==
    (probe.op = "return" /\ truthy(probe.gate_names))
    => LET kept == Selected(probe.data, Get(probe.gate_names))
       IN  /\ Len(probe.out) = Cardinality(kept)
           /\ \A k \in 1..Len(probe.out) :
                  probe.out[k] = probe.data[KthSmallest(kept, k)]

\* The name "a" selected the row of gate "A" and left out a row with no column
C10_Witness ==
    /\ probe.op = "return"
    /\ probe.gate_names = Some(<<s_a>>)
    /\ probe.data = <<<<>>, <<s_A>>>>
    /\ probe.out = <<<<s_A>>>>

---------------------------------------------------------------------------
(* The endpoint with two dates, so that a range can be a day, two days or  *)
(* inverted, and no filter.  Two more ranges have the first date in its    *)
(* spelling with Arabic-Indic digits: one a single day, one inverted.      *)

RangeDates == {d_31_12_2024, d_01_01_2025}

RangeRanges ==
    (RangeDates \X RangeDates)
        \cup {<<d_31_12_2024_arabic_indic, d_31_12_2024>>,
              <<d_01_01_2025, d_31_12_2024_arabic_indic>>}

RangeNext ==
    \/ Tick
    \/ \E r \in Requests, range \in RangeRanges :
           Begin(r, range[1], range[2], None)
    \/ \E r \in Requests, fetched \in FetchResults : Complete(r, fetched)

RangeSpec == Init /\ [][RangeNext]_vars

---------------------------------------------------------------------------
(* fetch_border_data on its own: every upstream outcome, and every table   *)
(* of up to MaxTableRows rows drawn from TableRows.                        *)

s_b_padded == <<32, 98, 32>>

\* <td> a <b> b </b></td>: a cell of two text nodes
TdTwoNodes ==
    [tag |-> "td", children |-> <<[text |-> s_a_padded], [text |-> s_b_padded]>>]

\* A cell that holds a table of a header row and the row "b"
TdNested ==
    [tag |-> "td", children |-> <<[table |-> <<<<Th(s_A)>>, <<Td(s_b)>>>>]>>]

\* <tr> elements: one without cells, a header row, rows of nothing but
\* empty or blank cells, rows with text, a cell of two text nodes, and a
\* row with a nested table
TableRows ==
    {<<>>, <<Th(s_x)>>, <<Td(s_empty)>>, <<Td(s_blank), Td(s_nbsp)>>,
     <<Td(s_a_padded), Td(s_x)>>, <<Td(s_b)>>, <<Td(s_empty), Td(s_x)>>,
     <<TdTwoNodes>>, <<Td(s_x), TdNested>>}

FetchUpstreams ==
    {[kind |-> "timeout", status |-> 0, table |-> None],
     [kind |-> "exception", status |-> 0, table |-> None],
     [kind |-> "response", status |-> 503, table |-> None],
     [kind |-> "response", status |-> 404, table |-> None],
     [kind |-> "response", status |-> 500, table |-> None],
     [kind |-> "response", status |-> 200, table |-> None]}
    \cup {[kind |-> "response", status |-> 200, table |-> Some(rows)] :
             rows \in SeqsUpTo(TableRows, MaxTableRows)}

FetchInit ==
    /\ now = 0
    /\ cache = EmptyCache
    /\ req = [r \in Requests |-> InitRequest]
    /\ nset = 0
    /\ \E upstream \in FetchUpstreams :
           probe = [op |-> "call", upstream |-> upstream,
                    result |-> [data |-> None, error |-> None]]

Fetch ==
    /\ probe.op = "call"
    /\ probe' = [probe EXCEPT !.op = "return",
                              !.result = fetch_border_data(probe.upstream)]
    /\ UNCHANGED <<now, cache, req, nset>>

FetchSpec == FetchInit /\ [][Fetch]_vars

\* The source answered 200 with a page that has a <table>
TableServed ==
    /\ probe.upstream.kind = "response"
    /\ probe.upstream.status = 200
    /\ probe.upstream.table # None

\* A td with something other than white space in one of its text nodes
HasText(cell) ==
    LET strings == cell_strings(cell.children)
    IN  \E n \in 1..Len(strings) : \E i \in 1..Len(strings[n]) : ~is_space(strings[n][i])

\* The indices of the tr elements with a td that has text
DataRows(rows) ==
    {k \in 1..Len(rows) :
        \E j \in 1..Len(find_all_td(rows[k])) : HasText(find_all_td(rows[k])[j])}

\* The characters of s that are no white space
NonSpace(s) == SelectSeq(s, LAMBDA c : ~is_space(c))

\* s without the white space at its ends
IsTrimOf(u, s) ==
    /\ u = <<>> \/ (~is_space(u[1]) /\ ~is_space(u[Len(u)]))
    /\ \E pre, post \in 0..Len(s) :
           /\ pre + Len(u) + post = Len(s)
           /\ \A i \in 1..Len(u) : u[i] = s[pre + i]
           /\ \A i \in 1..Len(s) : (i <= pre \/ i > pre + Len(u)) => is_space(s[i])

---------------------------------------------------------------------------
(* CacheManager on its own: its three methods called in any order with    *)
(* keys of the endpoint, while the clock goes on.  probe holds the last   *)
(* step of a call and what it returned.                                   *)
(*                                                                         *)
(* get_cached_data and set_cached_data are called on the event loop, one  *)
(* at a time.  GET /cache/stats is a plain `def` endpoint, which runs in  *)
(* a worker thread: get_cache_stats reads len(cache), then iterates over  *)
(* cache.values() while the loop thread may insert and delete.  Once the  *)
(* dict has changed size during the call, the iteration may raise         *)
(* RuntimeError (HTTP 500) or may have ended before: both are outcomes.   *)

CacheKeys ==
    {cache_key(d_31_12_2024, d_31_12_2024, None),
     cache_key(d_31_12_2024, d_31_12_2024, Some(<<s_a>>))}

CacheMatrices == {<<>>, <<<<s_a, s_x>>>>}

NoStats == [active_entries |-> 0, timeout_seconds |-> 0]

\* No call of get_cache_stats is running
NoScan == [pc |-> "none", stats |-> NoStats]

CacheInit ==
    /\ now = 0
    /\ cache = EmptyCache
    /\ req = [r \in Requests |-> InitRequest]
    /\ nset = 0
    /\ probe = [op |-> "none", key |-> <<>>, data |-> <<>>, ret |-> None,
                status |-> 0, stats |-> NoStats, scan |-> NoScan]

\* The running call of get_cache_stats after the loop thread has left the
\* dict as c
scan_after(c) ==
    IF probe.scan.pc = "running" /\ Cardinality(DOMAIN c) # Cardinality(DOMAIN cache)
    THEN [probe.scan EXCEPT !.pc = "raced"]
    ELSE probe.scan

CacheGet(key) ==
    /\ LET got == get_cached_data(cache, key, now)
       IN  /\ cache' = got.cache
           /\ probe' = [op |-> "get", key |-> key, data |-> <<>>, ret |-> got.ret,
                        status |-> 0, stats |-> NoStats, scan |-> scan_after(got.cache)]
    /\ UNCHANGED <<now, req, nset>>

CacheSet(key, data) ==
    /\ LET c == set_cached_data(cache, key, data, now)
       IN  /\ cache' = c
           /\ probe' = [op |-> "set", key |-> key, data |-> data, ret |-> None,
                        status |-> 0, stats |-> NoStats, scan |-> scan_after(c)]
    /\ UNCHANGED <<now, req, nset>>

\* GET /cache/stats: the worker thread reads len(self.cache)
CacheStatsBegin ==
    /\ probe.scan.pc = "none"
    /\ probe' = [op |-> "stats_begin", key |-> <<>>, data |-> <<>>, ret |-> None,
                 status |-> 0, stats |-> NoStats,
                 scan |-> [pc |-> "running", stats |-> get_cache_stats(cache)]]
    /\ UNCHANGED <<now, cache, req, nset>>

\* ... and comes to the end of cache.values()
CacheStatsReturn ==
    /\ probe.scan.pc \in {"running", "raced"}
    /\ probe' = [op |-> "stats", key |-> <<>>, data |-> <<>>, ret |-> None,
                 status |-> 200, stats |-> probe.scan.stats, scan |-> NoScan]
    /\ UNCHANGED <<now, cache, req, nset>>

\* ... or finds the dict changed in size: RuntimeError, HTTP 500
CacheStatsRaise ==
    /\ probe.scan.pc = "raced"
    /\ probe' = [op |-> "stats", key |-> <<>>, data |-> <<>>, ret |-> None,
                 status |-> 500, stats |-> NoStats, scan |-> NoScan]
    /\ UNCHANGED <<now, cache, req, nset>>

CacheNext ==
    \/ Tick
    \/ \E key \in CacheKeys : CacheGet(key)
    \/ \E key \in CacheKeys, data \in CacheMatrices : CacheSet(key, data)
    \/ CacheStatsBegin
    \/ CacheStatsReturn
    \/ CacheStatsRaise

CacheSpec == CacheInit /\ [][CacheNext]_vars

\* The entry of key k is there and as old as the TTL or older
Expired(k) ==
    k \in DOMAIN cache /\ now - cache[k].timestamp >= CACHE_TIMEOUT_SECONDS

\* This step is a call of a method, which the primed probe describes
Calls == now' = now

---------------------------------------------------------------------------
(* C11: filtering is idempotent: for every matrix M and filter list F,    *)
(* apply_border_filter(apply_border_filter(M, F), F) equals               *)
(* apply_border_filter(M, F).                                              *)
C11_FilterIdempotent ==
    probe.op = "again" => probe.again = probe.out

\* Filtering <<no column, "A", "b">> by ["a"] left the row of "A", and
\* filtering that again left it once more
C11_Witness ==
    /\ probe.op = "again"
    /\ probe.gate_names = Some(<<s_a>>)
    /\ probe.data = <<<<>>, <<s_A>>>>
    /\ probe.out = <<<<s_A>>>>
    /\ probe.again = <<<<s_A>>>>

---------------------------------------------------------------------------
(* C12: an empty or absent filter list is a no-op: for every matrix M, a  *)
(* row without columns included, apply_border_filter(M, []) and           *)
(* apply_border_filter(M, None) are M.                                     *)
C12_EmptyFilterIsNoOp ==
    (probe.op = "return" /\ probe.gate_names \in {None, Some(<<>>)})
    => probe.out = probe.data

\* The empty list left a matrix with a row without columns as it was
C12_Witness ==
    /\ probe.op = "return"
    /\ probe.gate_names = Some(<<>>)
    /\ probe.data = <<<<>>, <<s_a, s_x>>>>
    /\ probe.out = <<<<>>, <<s_a, s_x>>>>

\* ... and so did the absent list
C12_WitnessAbsent ==
    /\ probe.op = "return"
    /\ probe.gate_names = None
    /\ probe.data = <<<<>>, <<s_a, s_x>>>>
    /\ probe.out = <<<<>>, <<s_a, s_x>>>>

---------------------------------------------------------------------------
(* C13: parsing keeps exactly the table rows that have at least one data  *)
(* cell and at least one cell that is not empty after trimming, in        *)
(* document order: a table with N such rows and any number of blank or    *)
(* cell-less rows gives a matrix of N rows, the k-th of them the trimmed  *)
(* cells of the k-th such row.                                             *)
C13_ParseKeepsDataRowsInOrder ==
    (probe.op = "return" /\ TableServed)
    => LET rows == find_all_tr(Get(probe.upstream.table))
           kept == DataRows(rows)
       IN  kept # {}
           => /\ probe.result.data # None
              /\ LET M == Get(probe.result.data)
                 IN  /\ Len(M) = Cardinality(kept)
                     /\ \A k \in 1..Len(M) :
                          LET cells == find_all_td(rows[KthSmallest(kept, k)])
                          IN  /\ Len(M[k]) = Len(cells)
                              /\ \A j \in 1..Len(cells) :
                                   LET strings == cell_strings(cells[j].children)
                                   IN  /\ NonSpace(M[k][j]) = NonSpace(concat(strings))
                                       /\ Len(strings) = 1
                                          => IsTrimOf(M[k][j], strings[1])

\* Of the row of " a ", a row of blank cells and the row of "b", the two
\* rows with text came out, trimmed and in that order
C13_Witness ==
    /\ probe.op = "return"
    /\ TableServed
    /\ Get(probe.upstream.table) =
           <<<<Td(s_a_padded), Td(s_x)>>, <<Td(s_blank), Td(s_nbsp)>>, <<Td(s_b)>>>>
    /\ probe.result.data = Some(<<<<s_a, s_x>>, <<s_b>>>>)

\* A row with a nested table came out with the cells of the nested row
\* after its own, followed by the nested row
C13_WitnessNested ==
    /\ probe.op = "return"
    /\ TableServed
    /\ Get(probe.upstream.table) = <<<<Th(s_x)>>, <<Td(s_x), TdNested>>>>
    /\ probe.result.data = Some(<<<<s_x, <<65, 98>>, s_b>>, <<s_b>>>>)

---------------------------------------------------------------------------
(* C14: fetch_border_data never succeeds with an empty matrix: a page     *)
(* without a table is the failure "No data table found", a table all of   *)
(* whose rows are discarded is the failure "No border gate data found",   *)
(* and every success has at least one row, each row with at least one     *)
(* non-empty cell.                                                         *)
C14_NoEmptySuccess ==
    probe.op = "return"
    => /\ probe.result.data # None
          => LET M == Get(probe.result.data)
             IN  /\ Len(M) >= 1
                 /\ \A k \in 1..Len(M) : \E j \in 1..Len(M[k]) : M[k][j] # <<>>
       /\ (probe.upstream.kind = "response" /\ probe.upstream.status = 200
           /\ probe.upstream.table = None)
          => /\ probe.result.data = None
             /\ probe.result.error = Some("No data table found on the source website")
       /\ (TableServed /\ DataRows(find_all_tr(Get(probe.upstream.table))) = {})
          => /\ probe.result.data = None
             /\ probe.result.error =
                    Some("No border gate data found in the specified date range")

\* A table of a header row and two rows of blank cells was a failure
C14_Witness ==
    /\ probe.op = "return"
    /\ TableServed
    /\ Get(probe.upstream.table) =
           <<<<Th(s_x)>>, <<Td(s_empty)>>, <<Td(s_blank), Td(s_nbsp)>>>>
    /\ probe.result.data = None
    /\ probe.result.error = Some("No border gate data found in the specified date range")

---------------------------------------------------------------------------
(* C15: each request goes through its steps in one order.  The lookup     *)
(* comes first; the upstream fetch is started only after a lookup that    *)
(* missed and never after one that hit; the filter and the cache set run  *)
(* only after a fetch that succeeded; and an entry is created or replaced *)
(* only by a request that missed, fetched successfully and answers with   *)
(* source "live" and the very matrix it stored.                           *)

\* The entry of key k is there and younger than the TTL
Fresh(k) ==
    k \in DOMAIN cache /\ now - cache[k].timestamp < CACHE_TIMEOUT_SECONDS

C15_LookupFetchFilterStore ==
    [][ /\ \A r \in Requests :
             /\ Begins(r)
                => LET looked == req'[r].get_no >= 0
                       hit == looked /\ Fresh(req'[r].cache_key)
                   IN  /\ req'[r].pc = "fetching" <=> (looked /\ ~hit)
                       /\ req'[r].fetches = 1 <=> (looked /\ ~hit)
                       /\ hit => req'[r].resp.source = "cache"
                       /\ req'[r].set_no = 0
             /\ Completes(r)
                => /\ req[r].get_no >= 0
                   /\ req[r].fetches = 1
                   /\ req'[r].set_no > 0 <=> req'[r].fetched.data # None
                   /\ req'[r].resp.source = "live" <=> req'[r].fetched.data # None
        /\ \A k \in DOMAIN cache' :
             (k \notin DOMAIN cache \/ cache'[k] # cache[k])
             => \E r \in Requests :
                  /\ Completes(r)
                  /\ req[r].cache_key = k
                  /\ req'[r].fetched.data # None
                  /\ req'[r].resp.source = "live"
                  /\ req'[r].resp.data = Some(cache'[k].data)
                  /\ cache'[k].timestamp = now
      ]_vars

\* Request 1 missed, fetched the table of "a" and "b", filtered it by "all"
\* and stored the empty matrix it answered with; request 2 hit that entry
\* and fetched nothing
C15_Witness ==
    /\ req[1].pc = "done" /\ req[2].pc = "done"
    /\ req[1].gates = Some(<<s_all>>)
    /\ req[1].fetches = 1 /\ req[1].found = None
    /\ req[1].fetched.data = Some(<<<<s_a, s_x>>, <<s_b, s_x>>>>)
    /\ req[1].resp.source = "live" /\ req[1].resp.data = Some(<<>>)
    /\ req[1].cache_key \in DOMAIN cache
    /\ cache[req[1].cache_key].data = <<>>
    /\ req[2].resp.source = "cache" /\ req[2].fetches = 0 /\ req[2].set_no = 0

---------------------------------------------------------------------------
(* C16: the entry of a key k goes away only in a lookup of k itself that  *)
(* finds it expired.  Lookups and sets of other keys, lookups that hit,   *)
(* lookups that miss with nothing stored after them, the stats operation  *)
(* and the passage of time neither remove nor alter it, so an expired     *)
(* entry that is not looked up again stays.                                *)
C16_OnlyExpiredLookupRemoves ==
    [][ \A k \in DOMAIN cache :
          /\ k \notin DOMAIN cache'
             => /\ Calls
                /\ probe'.op = "get" /\ probe'.key = k /\ probe'.ret = None
                /\ Expired(k)
          /\ (k \in DOMAIN cache' /\ cache'[k] # cache[k])
             => (Calls /\ probe'.op = "set" /\ probe'.key = k)
      ]_vars

\* The entry of the unfiltered key is expired, and it is still there after
\* a lookup of the other key
C16_Witness ==
    /\ probe.op = "get"
    /\ probe.key = cache_key(d_31_12_2024, d_31_12_2024, Some(<<s_a>>))
    /\ Expired(cache_key(d_31_12_2024, d_31_12_2024, None))

\* ... and after the stats operation, which counted it
C16_WitnessStats ==
    /\ probe.op = "stats"
    /\ probe.status = 200
    /\ probe.stats.active_entries = 1
    /\ Expired(cache_key(d_31_12_2024, d_31_12_2024, None))

\* ... and after a stats operation that failed because a set of the other
\* key came in between
C16_WitnessStatsRaised ==
    /\ probe.op = "stats"
    /\ probe.status = 500
    /\ Expired(cache_key(d_31_12_2024, d_31_12_2024, None))
    /\ cache_key(d_31_12_2024, d_31_12_2024, Some(<<s_a>>)) \in DOMAIN cache

---------------------------------------------------------------------------
(* C17: set_cached_data(key, matrix) at time now leaves exactly           *)
(* (matrix, now) under key, whatever was there before, and leaves the     *)
(* entries of all other keys as they were.                                 *)
C17_SetOverwritesOneKey ==
    [][ (Calls /\ probe'.op = "set")
        => /\ DOMAIN cache' = DOMAIN cache \cup {probe'.key}
           /\ cache'[probe'.key] = [data |-> probe'.data, timestamp |-> now]
           /\ \A k \in DOMAIN cache : k # probe'.key => cache'[k] = cache[k]
      ]_vars

\* An empty matrix was stored at time TimeStep over an older entry of the
\* unfiltered key, next to the older entry of the other key
C17_Witness ==
    /\ probe.op = "set"
    /\ probe.key = cache_key(d_31_12_2024, d_31_12_2024, None)
    /\ probe.data = <<>>
    /\ now = TimeStep
    /\ cache[probe.key] = [data |-> <<>>, timestamp |-> TimeStep]
    /\ cache_key(d_31_12_2024, d_31_12_2024, Some(<<s_a>>)) \in DOMAIN cache
    /\ cache[cache_key(d_31_12_2024, d_31_12_2024, Some(<<s_a>>))] =
           [data |-> <<<<s_a, s_x>>>>, timestamp |-> 0]

---------------------------------------------------------------------------
(* C18: a request whose start date is later than its end date is rejected *)
(* with the invalid-input error INVALID_DATE_RANGE before any cache       *)
(* lookup or fetch: it starts no fetch and leaves the cache store as it   *)
(* was, expired entries included.                                          *)
C18_InvertedRangeRejectedFirst ==
    [][ \A r \in Requests :
          (/\ Begins(r)
           /\ validate_date_format(req'[r].start_date)
           /\ validate_date_format(req'[r].end_date)
           /\ dt_greater(Get(strptime(req'[r].start_date)),
                         Get(strptime(req'[r].end_date))))
          => /\ req'[r].pc = "done"
             /\ req'[r].resp.status = 400
             /\ req'[r].resp.error_code = "INVALID_DATE_RANGE"
             /\ req'[r].get_no = -1
             /\ req'[r].fetches = 0
             /\ req'[r].set_no = 0
             /\ cache' = cache
      ]_vars

\* Request 1 stored the entry of 01-01-2025; when it had expired, request 2
\* asked for 01-01-2025 to 31-12-2024 and was rejected, and the expired
\* entry is still there
C18_Witness ==
    /\ req[1].pc = "done" /\ Stored(1)
    /\ req[1].start_date = d_01_01_2025 /\ req[1].end_date = d_01_01_2025
    /\ req[2].pc = "done"
    /\ req[2].start_date = d_01_01_2025 /\ req[2].end_date = d_31_12_2024
    /\ req[2].resp.error_code = "INVALID_DATE_RANGE"
    /\ req[2].fetches = 0 /\ req[2].get_no = -1
    /\ Expired(req[1].cache_key)

\* The same with the end date written "31-12-" and the year in Arabic-Indic
\* digits: the dates are compared by their value, and the request that
\* named the one day in two spellings went on to look up and fetch
C18_WitnessOtherDigits ==
    /\ req[1].pc = "done" /\ Stored(1)
    /\ req[1].start_date = d_31_12_2024_arabic_indic
    /\ req[1].end_date = d_31_12_2024
    /\ req[1].cache_key =
           cache_key(d_31_12_2024_arabic_indic, d_31_12_2024, None)
    /\ req[2].pc = "done"
    /\ req[2].start_date = d_01_01_2025
    /\ req[2].end_date = d_31_12_2024_arabic_indic
    /\ req[2].resp.error_code = "INVALID_DATE_RANGE"
    /\ req[2].fetches = 0 /\ req[2].get_no = -1

---------------------------------------------------------------------------
(* C19: every result of fetch_border_data has exactly one of its two      *)
(* parts set, the matrix or the error message, and a matrix that is set   *)
(* has a row.  So no request ends in 404 NO_DATA_FOUND, and every failed  *)
(* fetch, that of a table without data rows included, reaches the caller  *)
(* as 503 DATA_SOURCE_ERROR with the message of the fetch.                *)
C19_FetchFailureIsAlways503 ==
    \A r \in Requests :
        /\ req[r].resp.status # 404
        /\ req[r].resp.error_code # "NO_DATA_FOUND"
        /\ (req[r].pc = "done" /\ req[r].fetches = 1)
           => /\ (req[r].fetched.data = None) # (req[r].fetched.error = None)
              /\ req[r].fetched.data # None => Get(req[r].fetched.data) # <<>>
              /\ req[r].fetched.error # None
                 => /\ req[r].resp.status = 503
                    /\ req[r].resp.error_code = "DATA_SOURCE_ERROR"
                    /\ req[r].resp.details = <<Get(req[r].fetched.error)>>

\* The upstream served a table without a data row, and the request ended
\* in 503
C19_Witness ==
    /\ req[1].pc = "done"
    /\ req[1].fetches = 1
    /\ req[1].fetched.data = None
    /\ req[1].fetched.error =
           Some("No border gate data found in the specified date range")
    /\ req[1].resp.status = 503
    /\ req[1].resp.error_code = "DATA_SOURCE_ERROR"

============================================================================
